---- MODULE Spec2Model ----
(***************************************************************************)
(* Model of testbed.py: SimulateData (ground-truth generator of synthetic  *)
(* control weights) and EstimateWeights (per treated unit, a convex QP     *)
(* over the simplex of control weights).                                   *)
(*                                                                         *)
(* Numbers.  Covariates are integers.  A ground-truth weight is an exact   *)
(* fraction <<num, den>>; a fraction with den = 0 is what 0.0/0.0 gives in *)
(* numpy, NaN.  An estimated weight is an integer w in 0..D standing for   *)
(* w/D, so the QP is solved over the grid of the simplex with step 1/D.    *)
(***************************************************************************)
EXTENDS Integers, Sequences, FiniteSets, TLC

\* Bounds of the model.
MaxNc == 2                \* at most MaxNc control units
D == 2                    \* estimated weights are multiples of 1/D

\* Value sets of the model.
TreatedCounts == {1, 2}   \* numbers of treated units
Dims == {1, 2, 3}         \* column counts of the matrices given to EstimateWeights
GenDims == {1, 2}         \* len(mu) in SimulateData
XcVals == {0, 2}          \* covariate values of control units
XtVals == {0, 1}          \* covariate values of treated units given to EstimateWeights
EpsVals == {0, 1}         \* values of the noise term
UVals == {0, 1, 2}        \* np.random.uniform draws: [0, 1) contains 0.0

VARIABLES
    pc,       \* position in the running function
    N_c, N_t, \* SimulateData: arguments; EstimateWeights: locals
    k, l, u,  \* SimulateData: len(mu), l, u
    X_c, X_t, \* SimulateData: locals; EstimateWeights: arguments
    ndim,     \* EstimateWeights: len(X_t.shape)
    n,        \* SimulateData: number of non-zero weights per treated unit
    W,        \* SimulateData: matrix of weights (fractions)
    W_hat,    \* EstimateWeights: matrix of weight estimates (grid weights)
    i,        \* loop index (1-based)
    status,   \* EstimateWeights: prob.status of the solve of each unit so far
    err,      \* the exception that left the function, "" if none
    result    \* what the function returned, <<>> if it has not returned

vars == <<pc, N_c, N_t, k, l, u, X_c, X_t, ndim, n, W, W_hat, i, status, err, result>>

NoResult == <<>>

----------------------------------------------------------------------------
\* Arithmetic helpers.

RECURSIVE SumTo(_, _)
SumTo(s, m) == IF m = 0 THEN 0 ELSE s[m] + SumTo(s, m - 1)

SumSeq(s) == SumTo(s, Len(s))

Zero == <<0, 1>>

IsNaN(f) == f[2] = 0

\* Float division x / s for x >= 0, s >= 0 with x <= s: 0.0/0.0 is NaN.
Div(x, s) == <<x, s>>

FAdd(f, g) == IF IsNaN(f) \/ IsNaN(g) THEN <<0, 0>>
              ELSE <<f[1] * g[2] + g[1] * f[2], f[2] * g[2]>>

FScale(f, c) == IF IsNaN(f) THEN <<0, 0>> ELSE <<f[1] * c, f[2]>>

RECURSIVE FSum(_)
FSum(s) == IF Len(s) = 0 THEN Zero ELSE FAdd(s[1], FSum(Tail(s)))

FIsOne(f) == ~IsNaN(f) /\ f[1] = f[2]

FIsZero(f) == ~IsNaN(f) /\ f[1] = 0

FInUnit(f) == ~IsNaN(f) /\ 0 <= f[1] /\ f[1] <= f[2]

Sq(z) == z * z

Mat(r, c, V) == [1..r -> [1..c -> V]]

Zeros(r, c) == [a \in 1..r |-> [b \in 1..c |-> 0]]

----------------------------------------------------------------------------
\* SimulateData(N_c, N_t, mu, Sigma, l, u, Gamma)

InitSim ==
    /\ pc = "sim_start"
    /\ N_c \in 1..MaxNc
    /\ N_t \in TreatedCounts
    /\ k \in GenDims
    /\ l \in 1..(MaxNc + 1)
    /\ u \in 0..(MaxNc + 2)
    /\ X_c = <<>> /\ X_t = <<>> /\ ndim = 2
    /\ n = <<>> /\ W = <<>> /\ W_hat = <<>>
    /\ i = 0 /\ status = <<>> /\ err = "" /\ result = NoResult

\* X_c = np.random.multivariate_normal(...); W = np.zeros(shape=(N_t, N_c))
Sim_DrawXc ==
    /\ pc = "sim_start"
    /\ X_c' \in Mat(N_c, k, XcVals)
    /\ W' = [a \in 1..N_t |-> [b \in 1..N_c |-> Zero]]
    /\ pc' = "sim_draw_n"
    /\ UNCHANGED <<N_c, N_t, k, l, u, X_t, ndim, n, W_hat, i, err, result, status>>

\* n = np.random.randint(low=l, high=u, size=N_t)
Sim_DrawN ==
    /\ pc = "sim_draw_n"
    /\ l < u
    /\ n' \in [1..N_t -> l..(u - 1)]
    /\ i' = 1
    /\ pc' = "sim_loop"
    /\ UNCHANGED <<N_c, N_t, k, l, u, X_c, X_t, ndim, W, W_hat, err, result, status>>

\* np.random.randint raises ValueError("low >= high")
Sim_DrawN_Raise ==
    /\ pc = "sim_draw_n"
    /\ l >= u
    /\ pc' = "raised"
    /\ err' = "ValueError"
    /\ UNCHANGED <<N_c, N_t, k, l, u, X_c, X_t, ndim, n, W, W_hat, i, result, status>>

RECURSIVE SumOver(_, _)
SumOver(f, S) == IF S = {} THEN 0
                 ELSE LET j == CHOOSE a \in S : TRUE IN f[j] + SumOver(f, S \ {j})

\* The row after W[i, random_index] = non_standardized / non_standardized.sum(),
\* where S is the set of indices in random_index and ns[j] the draw scattered to j.
ScatterRow(row, S, ns) ==
    [j \in 1..Len(row) |-> IF j \in S THEN Div(ns[j], SumOver(ns, S)) ELSE row[j]]

\* One iteration of the loop over treated units.
Sim_Row ==
    /\ pc = "sim_loop"
    /\ i <= N_t
    /\ n[i] <= N_c
    /\ \E S \in SUBSET (1..N_c) :
         /\ Cardinality(S) = n[i]
         /\ \E ns \in [S -> UVals] :
              W' = [W EXCEPT ![i] = ScatterRow(W[i], S, ns)]
    /\ i' = i + 1
    /\ UNCHANGED <<pc, N_c, N_t, k, l, u, X_c, X_t, ndim, n, W_hat, err, result, status>>

\* random.sample raises ValueError("sample larger than population")
Sim_Row_Raise ==
    /\ pc = "sim_loop"
    /\ i <= N_t
    /\ n[i] > N_c
    /\ pc' = "raised"
    /\ err' = "ValueError"
    /\ UNCHANGED <<N_c, N_t, k, l, u, X_c, X_t, ndim, n, W, W_hat, i, result, status>>

\* np.dot(W, X_c) + eps
DotPlusNoise(Wm, Xc, eps) ==
    [a \in 1..Len(Wm) |->
        [c \in 1..Len(eps[a]) |->
            FAdd(FSum([j \in 1..Len(Xc) |-> FScale(Wm[a][j], Xc[j][c])]),
                 <<eps[a][c], 1>>)]]

Sim_Return ==
    /\ pc = "sim_loop"
    /\ i > N_t
    /\ \E eps \in [1..N_t -> [1..k -> EpsVals]] :
         /\ X_t' = DotPlusNoise(W, X_c, eps)
         /\ result' = <<X_c, X_t', W>>
    /\ pc' = "returned"
    /\ UNCHANGED <<N_c, N_t, k, l, u, X_c, ndim, n, W, W_hat, i, err, status>>

NextSim ==
    \/ Sim_DrawXc
    \/ Sim_DrawN
    \/ Sim_DrawN_Raise
    \/ Sim_Row
    \/ Sim_Row_Raise
    \/ Sim_Return

SpecSim == InitSim /\ [][NextSim]_vars

----------------------------------------------------------------------------
\* EstimateWeights(X_c, X_t)

\* Constraints with the sum constraint left out: [0 <= w, w <= 1].
ConstraintsNoSum(w) ==
    \A j \in 1..Len(w) : 0 <= w[j] /\ w[j] <= D

\* The weight vectors that satisfy constraints = [0 <= w, w <= 1, sum_entries(w) == 1]
Constraints(w) ==
    /\ \A j \in 1..Len(w) : 0 <= w[j] /\ w[j] <= D
    /\ SumSeq(w) = D

\* X_t[i, ]: a row of a 2-D array; on a 1-D array the tuple index (i,) selects
\* the scalar X_t[i].
Row(Xt, nd, a) == IF nd = 1 THEN <<Xt[a]>> ELSE Xt[a]

\* cvxpy promotes a 1x1 operand of a sum to the shape of the other operand.
\* X_c.T * w - x is well-formed if both have the same length or one is 1x1;
\* otherwise building the expression raises ValueError.
Compatible(Xc, x) == Len(Xc[1]) = Len(x) \/ Len(x) = 1 \/ Len(Xc[1]) = 1

\* Component c of X_c.T * w, scaled by D
RECURSIVE FitAt(_, _, _, _)
FitAt(Xc, w, c, j) == IF j = 0 THEN 0 ELSE Xc[j][c] * w[j] + FitAt(Xc, w, c, j - 1)

\* The component of a vector of length len that takes part in component c of a sum.
BIdx(len, c) == IF len = 1 THEN 1 ELSE c

\* Objective with a sign slip: cvx.sum_squares(X_c.T * w + x).
ObjectiveSignSlip(Xc, x, w) ==
    LET m == IF Len(x) > Len(Xc[1]) THEN Len(x) ELSE Len(Xc[1])
    IN  SumSeq([c \in 1..m |->
            Sq(FitAt(Xc, w, BIdx(Len(Xc[1]), c), Len(Xc)) + D * x[BIdx(Len(x), c)])])

\* cvx.sum_squares(X_c.T * w - x), scaled by D^2
Objective(Xc, x, w) ==
    LET m == IF Len(x) > Len(Xc[1]) THEN Len(x) ELSE Len(Xc[1])
    IN  SumSeq([c \in 1..m |->
            Sq(FitAt(Xc, w, BIdx(Len(Xc[1]), c), Len(Xc)) - D * x[BIdx(Len(x), c)])])

\* w = cvx.Variable(N_c): the values of the variable that the model tries, the
\* vectors of N non-negative grid weights of sum at most total.
RECURSIVE Grid(_, _)
Grid(N, total) ==
    IF N = 0 THEN {<<>>}
    ELSE UNION {{Append(w, a) : w \in Grid(N - 1, total - a)} : a \in 0..total}

\* The least element of a non-empty set of integers.
Min(S) == CHOOSE a \in S : \A b \in S : a <= b

\* w.value after prob.solve() has found the optimum: a point of the feasible set
\* where the objective is least.
Solve(Xc, x) ==
    LET feasible == {w \in Grid(Len(Xc), D) : Constraints(w)}
        optimum == Min({Objective(Xc, x, w) : w \in feasible})
    IN  CHOOSE w \in feasible : Objective(Xc, x, w) = optimum

InitEst ==
    /\ pc = "est_start"
    /\ \E nc \in 1..MaxNc, kc \in Dims : X_c \in Mat(nc, kc, XcVals)
    /\ ndim \in {1, 2}
    /\ \E nt \in TreatedCounts, kt \in Dims :
         IF ndim = 1 THEN X_t \in [1..kt -> XtVals] ELSE X_t \in Mat(nt, kt, XtVals)
    /\ N_c = 0 /\ N_t = 0 /\ k = 0 /\ l = 0 /\ u = 0
    /\ n = <<>> /\ W = <<>> /\ W_hat = <<>>
    /\ i = 0 /\ status = <<>> /\ err = "" /\ result = NoResult

\* lines 68-74: N_c, N_t and the zero matrix W_hat
Est_Enter ==
    /\ pc = "est_start"
    /\ N_c' = Len(X_c)
    /\ N_t' = IF ndim = 1 THEN 1 ELSE Len(X_t)
    /\ W_hat' = Zeros(N_t', N_c')
    /\ i' = 1
    /\ status' = [a \in 1..N_t' |-> ""]
    /\ pc' = "est_loop"
    /\ UNCHANGED <<k, l, u, X_c, X_t, ndim, n, W, err, result>>

\* Est_Solve that also overwrites the target in its argument (X_t[i, ] = X_c.T * w).
Est_SolveInPlace ==
    /\ pc = "est_loop"
    /\ i <= N_t
    /\ Compatible(X_c, Row(X_t, ndim, i))
    /\ W_hat' = [W_hat EXCEPT ![i] = Solve(X_c, Row(X_t, ndim, i))]
    /\ X_t' = [X_t EXCEPT ![i] = IF ndim = 1 THEN 0 ELSE [c \in 1..Len(X_t[i]) |-> 0]]
    /\ status' = [status EXCEPT ![i] = "optimal"]
    /\ i' = i + 1
    /\ UNCHANGED <<pc, N_c, N_t, k, l, u, X_c, ndim, n, W, err, result>>

\* One iteration of the loop: the problem is built and solved, and w.value stored.
Est_Solve ==
    /\ pc = "est_loop"
    /\ i <= N_t
    /\ Compatible(X_c, Row(X_t, ndim, i))
    /\ W_hat' = [W_hat EXCEPT ![i] = Solve(X_c, Row(X_t, ndim, i))]
    /\ status' = [status EXCEPT ![i] = "optimal"]
    /\ i' = i + 1
    /\ UNCHANGED <<pc, N_c, N_t, k, l, u, X_c, X_t, ndim, n, W, err, result>>

\* One iteration of the loop: cvxpy rejects the shapes of X_c.T * w - X_t[i, ].
Est_ShapeError ==
    /\ pc = "est_loop"
    /\ i <= N_t
    /\ ~Compatible(X_c, Row(X_t, ndim, i))
    /\ pc' = "raised"
    /\ err' = "ValueError"
    /\ UNCHANGED <<N_c, N_t, k, l, u, X_c, X_t, ndim, n, W, W_hat, i, status, result>>

\* Est_SolverFail with the failure swallowed (try: ... except: continue): the row
\* of the unit stays as np.zeros left it.
Est_SolverFailSwallowed ==
    /\ pc = "est_loop"
    /\ i <= N_t
    /\ Compatible(X_c, Row(X_t, ndim, i))
    /\ status' = [status EXCEPT ![i] = "solver_error"]
    /\ i' = i + 1
    /\ UNCHANGED <<pc, N_c, N_t, k, l, u, X_c, X_t, ndim, n, W, W_hat, err, result>>

\* One iteration of the loop: the solver does not converge; prob.solve() raises
\* SolverError, or leaves w.value None and w.value.getA1() raises AttributeError.
Est_SolverFail ==
    /\ pc = "est_loop"
    /\ i <= N_t
    /\ Compatible(X_c, Row(X_t, ndim, i))
    /\ pc' = "raised"
    /\ status' = [status EXCEPT ![i] = "solver_error"]
    /\ err' = "SolverError"
    /\ UNCHANGED <<N_c, N_t, k, l, u, X_c, X_t, ndim, n, W, W_hat, i, result>>

\* Est_Return with the loop one iteration short (xrange(N_t - 1)).
Est_ReturnEarly ==
    /\ pc = "est_loop"
    /\ i >= N_t
    /\ result' = W_hat
    /\ pc' = "returned"
    /\ UNCHANGED <<N_c, N_t, k, l, u, X_c, X_t, ndim, n, W, W_hat, i, status, err>>

\* return W_hat
Est_Return ==
    /\ pc = "est_loop"
    /\ i > N_t
    /\ result' = W_hat
    /\ pc' = "returned"
    /\ UNCHANGED <<N_c, N_t, k, l, u, X_c, X_t, ndim, n, W, W_hat, i, status, err>>

NextEst ==
    \/ Est_Enter
    \/ Est_Solve
    \/ Est_ShapeError
    \/ Est_SolverFail
    \/ Est_Return

SpecEst == InitEst /\ [][NextEst]_vars

----------------------------------------------------------------------------
\* Properties of SimulateData (specification SpecSim).

NonZeros(row) == {j \in 1..Len(row) : ~FIsZero(row[j])}

\* C1: for 1 <= l < u <= N_c + 1, every row of the returned W sums to 1, has all
\* entries in [0, 1], and has exactly n[i] non-zero entries with l <= n[i] < u.
C1_RowsOfW ==
    (pc = "returned" /\ 1 <= l /\ l < u /\ u <= N_c + 1) =>
        \A a \in 1..N_t :
            /\ FIsOne(FSum(result[3][a]))
            /\ \A j \in 1..N_c : FInUnit(result[3][a][j])
            /\ Cardinality(NonZeros(result[3][a])) = n[a]
            /\ l <= Cardinality(NonZeros(result[3][a]))
            /\ Cardinality(NonZeros(result[3][a])) < u

\* C6: a call with u <= l or N_c < u - 1 ends in an error and returns nothing,
\* whatever support sizes are drawn.
C6_InvalidParameterReported ==
    (u <= l \/ N_c < u - 1) => (pc # "returned" /\ result = NoResult)

----------------------------------------------------------------------------
\* Properties of EstimateWeights (specification SpecEst).

Cols(Xt, nd) == IF nd = 1 THEN Len(Xt) ELSE Len(Xt[1])

Simplex(N) == {w \in Grid(N, D) : SumSeq(w) = D}

Exact(Xc, x, w) == \A c \in 1..Len(x) : FitAt(Xc, w, c, Len(Xc)) = D * x[c]

\* C2: called with a 1-D X_t of length k, the function returns one row of N_c
\* weights, the solution of the problem whose target is the whole vector, which
\* is the row a batch call returns for a row equal to that vector.
C2_SingleVectorEquivalence ==
    (pc = "returned" /\ ndim = 1 /\ Len(X_t) = Len(X_c[1])) =>
        /\ Len(result) = 1
        /\ Len(result[1]) = Len(X_c)
        /\ result[1] = Solve(X_c, Row(<<X_t>>, 2, 1))

\* C3: a returned W_hat has N_t rows of N_c weights, each row is the stored
\* solution of its unit, sums to 1 and has all entries in [0, 1].
C3_RowsOfWhat ==
    pc = "returned" =>
        /\ Len(result) = (IF ndim = 1 THEN 1 ELSE Len(X_t))
        /\ \A a \in 1..Len(result) :
             /\ Len(result[a]) = Len(X_c)
             /\ status[a] = "optimal"
             /\ result[a] = Solve(X_c, Row(X_t, ndim, a))
             /\ SumSeq(result[a]) = D
             /\ \A j \in 1..Len(X_c) : 0 <= result[a][j] /\ result[a][j] <= D

C3_Witness ==
    /\ pc = "returned"
    /\ Len(result) >= 2
    /\ Len(X_c) >= 2
    /\ result[1] # result[2]

C5_DimensionMismatchReported ==
    Cols(X_t, ndim) # Len(X_c[1]) => (pc # "returned" /\ result = NoResult)

\* C7: if every row of a batch X_t is an exact convex combination of the rows of
\* X_c, every returned row reconstructs its target exactly.
C7_NoiselessRoundTrip ==
    (/\ pc = "returned"
     /\ ndim = 2
     /\ Len(X_t[1]) = Len(X_c[1])
     /\ \A a \in 1..Len(X_t) : \E w \in Simplex(Len(X_c)) : Exact(X_c, X_t[a], w)) =>
        \A a \in 1..Len(X_t) : Exact(X_c, X_t[a], result[a])

\* An exact fit of distinct controls by a row that mixes two of them.
C7_Witness ==
    /\ pc = "returned"
    /\ ndim = 2
    /\ Len(X_t[1]) = Len(X_c[1])
    /\ Len(X_c) >= 2
    /\ X_c[1] # X_c[2]
    /\ \A a \in 1..Len(X_t) : Exact(X_c, X_t[a], result[a])
    /\ \E a \in 1..Len(X_t) : result[a][1] > 0 /\ result[a][2] > 0

\* C8: when the call ends, every unit whose own solve did not fail has its row
\* in the output, and the row is the solution of (X_c, x_t,i) alone.
C8_UnitsIndependent ==
    (pc \in {"returned", "raised"} /\ ndim = 2 /\ Len(X_t[1]) = Len(X_c[1])) =>
        \A a \in 1..Len(X_t) :
            status[a] # "solver_error" =>
                (result # NoResult /\ result[a] = Solve(X_c, X_t[a]))

====
